---------------------------- MODULE Spec2Model ----------------------------
(***************************************************************************)
(* mrename: index extraction, name formatting and the rename/copy engine   *)
(* of src/core.py, with the dispatch of src/mrename.py.                    *)
(*                                                                         *)
(* A filename is a sequence of characters; a character is a one-character  *)
(* string.  The token "sup2" stands for U+00B2 (superscript two), a        *)
(* character for which str.isdigit() is true and int() fails.  A directory *)
(* is a set of entries [name, kind, data]; data identifies the contents.   *)
(***************************************************************************)
EXTENDS Integers, Sequences, FiniteSets, TLC

(***************************************************************************)
(* Bounds of the model.                                                    *)
(***************************************************************************)
MaxNameLen == 4
MaxSkip == 3
MaxFiles == 2

(***************************************************************************)
(* Characters and Python's str / int primitives.                           *)
(***************************************************************************)
DecDigits == {"0", "1", "2", "3", "4", "5", "6", "7", "8", "9"}

Whitespace == {" "}

Signs == {"+", "-"}

\* str.isdigit() of one character
IsDigit(c) == c \in DecDigits \cup {"sup2"}

DigitVal(c) ==
  CASE c = "0" -> 0 [] c = "1" -> 1 [] c = "2" -> 2 [] c = "3" -> 3
    [] c = "4" -> 4 [] c = "5" -> 5 [] c = "6" -> 6 [] c = "7" -> 7
    [] c = "8" -> 8 [] c = "9" -> 9

DigitChar(n) ==
  CASE n = 0 -> "0" [] n = 1 -> "1" [] n = 2 -> "2" [] n = 3 -> "3"
    [] n = 4 -> "4" [] n = 5 -> "5" [] n = 6 -> "6" [] n = 7 -> "7"
    [] n = 8 -> "8" [] n = 9 -> "9"

\* s[k:] with k >= 0 counted from 0, as Python slices
DropFirst(s, k) == IF k >= Len(s) THEN << >> ELSE SubSeq(s, k + 1, Len(s))

\* s[:k]
TakeFirst(s, k) == IF k >= Len(s) THEN s ELSE SubSeq(s, 1, k)

\* str.startswith
StartsWith(s, p) == Len(p) <= Len(s) /\ SubSeq(s, 1, Len(p)) = p

RECURSIVE LStrip(_)
LStrip(s) == IF s # << >> /\ Head(s) \in Whitespace THEN LStrip(Tail(s)) ELSE s

RECURSIVE RStrip(_)
RStrip(s) ==
  IF s # << >> /\ s[Len(s)] \in Whitespace
  THEN RStrip(SubSeq(s, 1, Len(s) - 1)) ELSE s

\* the digits of an int() argument, after the surrounding whitespace and sign
IntBody(s) ==
  LET t == RStrip(LStrip(s))
  IN  IF t # << >> /\ Head(t) \in Signs THEN Tail(t) ELSE t

IntNegative(s) ==
  LET t == RStrip(LStrip(s)) IN t # << >> /\ Head(t) = "-"

\* int(s) does not raise ValueError
IntOk(s) ==
  LET u == IntBody(s)
  IN  /\ u # << >>
      /\ \A i \in 1..Len(u) : u[i] \in DecDigits \cup {"_"}
      /\ u[1] \in DecDigits
      /\ u[Len(u)] \in DecDigits
      /\ \A i \in 1..(Len(u) - 1) : ~(u[i] = "_" /\ u[i + 1] = "_")

RECURSIVE DigitsValue(_, _)
DigitsValue(u, acc) ==
  IF u = << >> THEN acc
  ELSE IF Head(u) = "_" THEN DigitsValue(Tail(u), acc)
  ELSE DigitsValue(Tail(u), 10 * acc + DigitVal(Head(u)))

\* the value of int(s), where IntOk(s)
IntVal(s) ==
  LET v == DigitsValue(IntBody(s), 0) IN IF IntNegative(s) THEN 0 - v ELSE v

RECURSIVE ToDigits(_)
ToDigits(n) ==
  IF n < 10 THEN << DigitChar(n) >>
  ELSE Append(ToDigits(n \div 10), DigitChar(n % 10))

\* "{:02d}".format(n) for n >= 0
Pad2(n) == IF n < 10 THEN << "0" >> \o ToDigits(n) ELSE ToDigits(n)

(***************************************************************************)
(* pathlib: the final extension and the stem of a name.                    *)
(***************************************************************************)
\* 1-based position of the last "." of the name, 0 when there is none
LastDot(name) ==
  LET D == {i \in 1..Len(name) : name[i] = "."}
  IN  IF D = {} THEN 0 ELSE CHOOSE i \in D : \A j \in D : j <= i

suffix(name) ==
  LET i == LastDot(name)
  IN  IF 1 < i /\ i < Len(name) THEN SubSeq(name, i, Len(name)) ELSE << >>

stem(name) ==
  LET i == LastDot(name)
  IN  IF 1 < i /\ i < Len(name) THEN SubSeq(name, 1, i - 1) ELSE name

(***************************************************************************)
(* Index Extractor.                                                        *)
(***************************************************************************)
\* format.index('{}'): 0-based offset of the first "{}", -1 for ValueError
PlaceholderIndex(format) ==
  LET P == {i \in 1..(Len(format) - 1) : format[i] = "{" /\ format[i + 1] = "}"}
  IN  IF P = {} THEN -1 ELSE (CHOOSE i \in P : \A j \in P : i <= j) - 1

\* the call reaches error_exit("Invalid format. Cannot find {}.")
find_index_exits(filename, format) ==
  format # << >> /\ PlaceholderIndex(format) = -1

RECURSIVE StripNonDigits(_)
StripNonDigits(s) ==
  IF Len(s) > 0 /\ ~IsDigit(s[1]) THEN StripNonDigits(Tail(s)) ELSE s

RECURSIVE DigitRun(_)
\* the i of the second loop: length of the run of isdigit characters
DigitRun(s) ==
  IF Len(s) > 0 /\ IsDigit(s[1]) THEN 1 + DigitRun(Tail(s)) ELSE 0

\* find_index slicing one character too far: filename[k + 1:]
find_index_offby1(filename, format) ==
  LET rem == IF format # << >>
             THEN DropFirst(filename, PlaceholderIndex(format) + 1)
             ELSE StripNonDigits(filename)
  IN  IF Len(rem) = 0 THEN -1
      ELSE LET run == TakeFirst(rem, DigitRun(rem))
           IN  IF IntOk(run) THEN IntVal(run) ELSE -1

\* find_index running the no-hint search on what the hint leaves
find_index_strip(filename, format) ==
  LET rem == IF format # << >>
             THEN StripNonDigits(DropFirst(filename, PlaceholderIndex(format)))
             ELSE StripNonDigits(filename)
  IN  IF Len(rem) = 0 THEN -1
      ELSE LET run == TakeFirst(rem, DigitRun(rem))
           IN  IF IntOk(run) THEN IntVal(run) ELSE -1

\* the empty format stands for both None and ""
find_index(filename, format) ==
  LET rem == IF format # << >>
             THEN DropFirst(filename, PlaceholderIndex(format))
             ELSE StripNonDigits(filename)
  IN  IF Len(rem) = 0 THEN -1
      ELSE LET run == TakeFirst(rem, DigitRun(rem))
           IN  IF IntOk(run) THEN IntVal(run) ELSE -1

(***************************************************************************)
(* Name Formatter.                                                         *)
(***************************************************************************)
\* is_formatted reading filepath.name where the code reads filepath.stem
is_formatted_name(filename, prefix) ==
  IF ~StartsWith(filename, prefix) THEN FALSE
  ELSE IntOk(DropFirst(filename, Len(prefix)))

is_formatted(filename, prefix) ==
  LET name == stem(filename)
  IN  IF ~StartsWith(name, prefix) THEN FALSE
      ELSE IntOk(DropFirst(name, Len(prefix)))

formatted_filename(filename, prefix, format) ==
  LET index == find_index(filename, format)
  IN  IF index # -1 THEN prefix \o Pad2(index) \o suffix(filename) ELSE << >>


(***************************************************************************)
(* The filesystem: a directory is a set of entries with distinct names.    *)
(***************************************************************************)
Exists(d, name) == \E e \in d : e.name = name

EntryOf(d, name) == CHOOSE e \in d : e.name = name

\* to_process without the test of the leading "."
to_process_hidden(d) == {f \in d : ~(f.kind = "dir")}

\* the entries listed by to_process; dir.iterdir() fixes their order
to_process(d) ==
  {f \in d : ~(f.kind = "dir" \/ StartsWith(f.name, << "." >>))}

\* the orders in which iterdir may enumerate a set of entries, as name lists
Orders(S) ==
  LET n == Cardinality(S)
      names == {e.name : e \in S}
  IN  {o \in [1..n -> names] : \A i, j \in 1..n : o[i] = o[j] => i = j}

(***************************************************************************)
(* Transfer Engine: the primitives.  A result carries the returned         *)
(* boolean, whether the call ended the process in error_exit, and the      *)
(* directory it leaves.                                                    *)
(***************************************************************************)
\* rename_file without the test new_path.exists(): path.rename replaces
rename_file_overwrite(d, name, prefix, format) ==
  IF is_formatted(name, prefix)
  THEN [ret |-> FALSE, exit |-> FALSE, dir |-> d]
  ELSE IF find_index_exits(name, format)
  THEN [ret |-> FALSE, exit |-> TRUE, dir |-> d]
  ELSE LET new == formatted_filename(name, prefix, format)
       IN  IF new = << >>
           THEN [ret |-> FALSE, exit |-> FALSE, dir |-> d]
           ELSE IF new # name
           THEN [ret |-> TRUE, exit |-> FALSE,
                 dir |-> {e \in d : e.name # name /\ e.name # new}
                           \cup {[EntryOf(d, name) EXCEPT !.name = new]}]
           ELSE [ret |-> FALSE, exit |-> FALSE, dir |-> d]

rename_file(d, name, prefix, format) ==
  IF is_formatted(name, prefix)
  THEN [ret |-> FALSE, exit |-> FALSE, dir |-> d]
  ELSE IF find_index_exits(name, format)
  THEN [ret |-> FALSE, exit |-> TRUE, dir |-> d]
  ELSE LET new == formatted_filename(name, prefix, format)
       IN  IF new = << >>
           THEN [ret |-> FALSE, exit |-> FALSE, dir |-> d]
           ELSE IF new # name /\ ~Exists(d, new)
           THEN [ret |-> TRUE, exit |-> FALSE,
                 dir |-> (d \ {EntryOf(d, name)})
                           \cup {[EntryOf(d, name) EXCEPT !.name = new]}]
           ELSE [ret |-> FALSE, exit |-> FALSE, dir |-> d]

\* the name copy_file gives the copy; << >> when no index is found
copy_target(name, prefix, format) ==
  IF ~is_formatted(name, prefix)
  THEN formatted_filename(name, prefix, format)
  ELSE name

\* copy_file without the test dest_filepath.exists(): shutil.copy replaces
copy_file_overwrite(d, dst, name, prefix, format) ==
  IF ~is_formatted(name, prefix) /\ find_index_exits(name, format)
  THEN [ret |-> FALSE, exit |-> TRUE, dest |-> dst]
  ELSE LET new == copy_target(name, prefix, format)
       IN  IF new = << >>
           THEN [ret |-> FALSE, exit |-> FALSE, dest |-> dst]
           ELSE [ret |-> TRUE, exit |-> FALSE,
                 dest |-> {e \in dst : e.name # new}
                            \cup {[name |-> new, kind |-> "file",
                                   data |-> EntryOf(d, name).data]}]

copy_file(d, dst, name, prefix, format) ==
  IF ~is_formatted(name, prefix) /\ find_index_exits(name, format)
  THEN [ret |-> FALSE, exit |-> TRUE, dest |-> dst]
  ELSE LET new == copy_target(name, prefix, format)
       IN  IF new = << >>
           THEN [ret |-> FALSE, exit |-> FALSE, dest |-> dst]
           ELSE IF ~Exists(dst, new)
           THEN [ret |-> TRUE, exit |-> FALSE,
                 dest |-> dst \cup {[name |-> new, kind |-> "file",
                                     data |-> EntryOf(d, name).data]}]
           ELSE [ret |-> FALSE, exit |-> FALSE, dest |-> dst]

\* rename_all_files_in_dir as a function of the directory and the listing
\* order: the returned triple, << >> when the run ends in error_exit
RECURSIVE rename_all_result(_, _, _, _, _, _)
rename_all_result(d, order, prefix, format, renamed, unrenamed) ==
  IF order = << >> THEN << renamed, unrenamed, renamed + unrenamed >>
  ELSE LET r == rename_file(d, Head(order), prefix, format)
       IN  IF r.exit THEN << >>
           ELSE IF r.ret
           THEN rename_all_result(r.dir, Tail(order), prefix, format,
                                  renamed + 1, unrenamed)
           ELSE rename_all_result(r.dir, Tail(order), prefix, format,
                                  renamed, unrenamed + 1)

(***************************************************************************)
(* Inputs of the engine.                                                   *)
(***************************************************************************)
File(name, data) == [name |-> name, kind |-> "file", data |-> data]

Dir(name, data) == [name |-> name, kind |-> "dir", data |-> data]

SrcPool ==
  { File(<< "x", "1", ".", "j" >>, 1),
    File(<< "y", "0", "1", ".", "j" >>, 2),
    File(<< "p", "0", "1", ".", "j" >>, 3),
    File(<< "n", ".", "j" >>, 4),
    File(<< ".", "h", "1" >>, 5),
    Dir(<< "s", "2" >>, 6),
    File(<< "x", "1" >>, 7),
    File(<< "a", ".", "0", "1" >>, 8),
    Dir(<< "p", "0", "1" >>, 9) }

DestPool ==
  { File(<< "p", "0", "1", ".", "j" >>, 21),
    File(<< "a", ".", "0", "1" >>, 22) }

ScenarioDir ==
  { File(<< "i", "m", "g", "0", "0", "3", ".", "p", "n", "g" >>, 11),
    File(<< "i", "m", "g", "7", ".", "p", "n", "g" >>, 12),
    File(<< "n", "o", "t", "e", "s", ".", "t", "x", "t" >>, 13),
    File(<< ".", "h", "i", "d", "d", "e", "n" >>, 14),
    Dir(<< "s", "u", "b" >>, 15) }

ScenarioPrefix == << "p", "h", "o", "t", "o" >>

EnginePrefixes == { << "p" >>, << "a", "." >> }

EngineFormats == { << >>, << "x", "{", "}" >>, << "x" >> }

\* the path argument naming the directory itself
DirPath == << >>

(***************************************************************************)
(* State of the engine.                                                    *)
(***************************************************************************)
VARIABLES
  dir,        \* the source directory
  dest,       \* the destination directory
  prefix,     \* option prefix
  format,     \* option format
  path,       \* the path argument: DirPath or the name of a file of dir
  copy_mode,  \* option copy / dest
  force,      \* option force
  pc,         \* position of the process
  todo,       \* the rest of the list the bulk loop iterates
  succeeded,  \* renamed_count / copied_count
  skipped,    \* unrenamed_count / uncopied_count
  res,        \* the last bulk return
  call,       \* the last call of a primitive, with the directories before it
  renamed,    \* the names rename_file has given so far
  dir0,       \* source directory when the invocation started
  dest0,      \* destination directory when the invocation started
  cands0,     \* to_process at the start of the bulk run
  out         \* results of the functions applied to (path, prefix, format)

vars == << dir, dest, prefix, format, path, copy_mode, force, pc, todo,
           succeeded, skipped, res, call, renamed, dir0, dest0, cands0,
           out >>

NoCall == [op |-> "none", name |-> << >>, ret |-> FALSE, exit |-> FALSE,
           again |-> FALSE, dir |-> {}, dest |-> {}]

NoOut == [op |-> "none"]

NoRes == [op |-> "none", val |-> << >>]

Init ==
  /\ \/ /\ dir \in {d \in SUBSET SrcPool : Cardinality(d) <= MaxFiles}
        /\ prefix \in EnginePrefixes
        /\ format \in EngineFormats
     \/ /\ dir = ScenarioDir
        /\ prefix = ScenarioPrefix
        /\ format = << >>
  /\ dest \in {{}, DestPool}
  /\ path = DirPath
  /\ copy_mode = FALSE
  /\ force = FALSE
  /\ pc = "idle"
  /\ todo = << >>
  /\ succeeded = 0
  /\ skipped = 0
  /\ res = NoRes
  /\ call = NoCall
  /\ renamed = {}
  /\ dir0 = dir
  /\ dest0 = dest
  /\ cands0 = {}
  /\ out = NoOut

\* where app goes after copy: rename when force is set
AfterCopy == IF force THEN "rename" ELSE "done"

\* app: a new invocation on the directory or on one of its files
app(p, cm, fc) ==
  /\ pc \in {"idle", "done", "exited"}
  /\ p \in {DirPath} \cup {e.name : e \in {f \in dir : f.kind = "file"}}
  /\ path' = p
  /\ copy_mode' = cm
  /\ force' = fc
  /\ pc' = IF cm THEN "copy" ELSE "rename"
  /\ dir0' = dir
  /\ dest0' = dest
  /\ todo' = << >>
  /\ succeeded' = 0
  /\ skipped' = 0
  /\ res' = NoRes
  /\ call' = NoCall
  /\ cands0' = {}
  /\ UNCHANGED << dir, dest, prefix, format, renamed, out >>

\* copy, directory branch: copy_all_files_in_dir up to the listing
copy_all_begin ==
  /\ pc = "copy"
  /\ path = DirPath
  /\ \E order \in Orders(to_process(dir)) : todo' = order
  /\ cands0' = to_process(dir)
  /\ succeeded' = 0
  /\ skipped' = 0
  /\ pc' = "copy_all"
  /\ UNCHANGED << dir, dest, prefix, format, path, copy_mode, force, res,
                  call, renamed, dir0, dest0, out >>

\* one iteration of the loop of copy_all_files_in_dir
copy_all_step ==
  /\ pc = "copy_all"
  /\ todo # << >>
  /\ LET r == copy_file(dir, dest, Head(todo), prefix, format)
     IN  /\ dest' = r.dest
         /\ pc' = IF r.exit THEN "exited" ELSE "copy_all"
         /\ succeeded' = IF r.ret THEN succeeded + 1 ELSE succeeded
         /\ skipped' = IF r.ret \/ r.exit THEN skipped ELSE skipped + 1
         /\ call' = [op |-> "copy_file", name |-> Head(todo), ret |-> r.ret,
                     exit |-> r.exit, again |-> FALSE, dir |-> dir,
                     dest |-> dest]
  /\ renamed' = renamed
  /\ todo' = Tail(todo)
  /\ UNCHANGED << dir, prefix, format, path, copy_mode, force, res, dir0,
                  dest0, cands0, out >>

copy_all_return ==
  /\ pc = "copy_all"
  /\ todo = << >>
  /\ res' = [op |-> "copy_all",
             val |-> << succeeded, skipped, succeeded + skipped >>]
  /\ pc' = AfterCopy
  /\ UNCHANGED << dir, dest, prefix, format, path, copy_mode, force, todo,
                  succeeded, skipped, call, renamed, dir0, dest0, cands0,
                  out >>

\* copy, single-file branch
copy_single ==
  /\ pc = "copy"
  /\ path # DirPath
  /\ LET r == copy_file(dir, dest, path, prefix, format)
     IN  /\ dest' = r.dest
         /\ pc' = IF r.exit THEN "exited" ELSE AfterCopy
         /\ call' = [op |-> "copy_file", name |-> path, ret |-> r.ret,
                     exit |-> r.exit, again |-> FALSE, dir |-> dir,
                     dest |-> dest]
  /\ renamed' = renamed
  /\ UNCHANGED << dir, prefix, format, path, copy_mode, force, todo,
                  succeeded, skipped, res, dir0, dest0, cands0, out >>

\* rename, directory branch: rename_all_files_in_dir up to the listing
rename_all_begin ==
  /\ pc = "rename"
  /\ path = DirPath
  /\ \E order \in Orders(to_process(dir)) : todo' = order
  /\ cands0' = to_process(dir)
  /\ succeeded' = 0
  /\ skipped' = 0
  /\ pc' = "rename_all"
  /\ UNCHANGED << dir, dest, prefix, format, path, copy_mode, force, res,
                  call, renamed, dir0, dest0, out >>

\* the loop of rename_all_files_in_dir leaving an already formatted file
\* out of both counters
rename_all_step_lost ==
  /\ pc = "rename_all"
  /\ todo # << >>
  /\ LET r == rename_file(dir, Head(todo), prefix, format)
     IN  /\ dir' = r.dir
         /\ pc' = IF r.exit THEN "exited" ELSE "rename_all"
         /\ succeeded' = IF r.ret THEN succeeded + 1 ELSE succeeded
         /\ skipped' = IF r.ret \/ r.exit \/ is_formatted(Head(todo), prefix)
                        THEN skipped ELSE skipped + 1
         /\ call' = [op |-> "rename_file", name |-> Head(todo), ret |-> r.ret,
                     exit |-> r.exit, again |-> Head(todo) \in renamed,
                     dir |-> dir, dest |-> dest]
         /\ renamed' = IF r.ret
                        THEN renamed \cup
                               {formatted_filename(Head(todo), prefix, format)}
                        ELSE renamed
  /\ todo' = Tail(todo)
  /\ UNCHANGED << dest, prefix, format, path, copy_mode, force, res, dir0,
                  dest0, cands0, out >>

\* one iteration of the loop of rename_all_files_in_dir
rename_all_step ==
  /\ pc = "rename_all"
  /\ todo # << >>
  /\ LET r == rename_file(dir, Head(todo), prefix, format)
     IN  /\ dir' = r.dir
         /\ pc' = IF r.exit THEN "exited" ELSE "rename_all"
         /\ succeeded' = IF r.ret THEN succeeded + 1 ELSE succeeded
         /\ skipped' = IF r.ret \/ r.exit THEN skipped ELSE skipped + 1
         /\ call' = [op |-> "rename_file", name |-> Head(todo), ret |-> r.ret,
                     exit |-> r.exit, again |-> Head(todo) \in renamed,
                     dir |-> dir, dest |-> dest]
         /\ renamed' = IF r.ret
                        THEN renamed \cup
                               {formatted_filename(Head(todo), prefix, format)}
                        ELSE renamed
  /\ todo' = Tail(todo)
  /\ UNCHANGED << dest, prefix, format, path, copy_mode, force, res, dir0,
                  dest0, cands0, out >>

rename_all_return ==
  /\ pc = "rename_all"
  /\ todo = << >>
  /\ res' = [op |-> "rename_all",
             val |-> << succeeded, skipped, succeeded + skipped >>]
  /\ pc' = "done"
  /\ UNCHANGED << dir, dest, prefix, format, path, copy_mode, force, todo,
                  succeeded, skipped, call, renamed, dir0, dest0, cands0,
                  out >>

\* rename, single-file branch
rename_single ==
  /\ pc = "rename"
  /\ path # DirPath
  /\ LET r == rename_file(dir, path, prefix, format)
     IN  /\ dir' = r.dir
         /\ pc' = IF r.exit THEN "exited" ELSE "done"
         /\ call' = [op |-> "rename_file", name |-> path, ret |-> r.ret,
                     exit |-> r.exit, again |-> path \in renamed,
                     dir |-> dir, dest |-> dest]
         /\ renamed' = IF r.ret
                        THEN renamed \cup
                               {formatted_filename(path, prefix, format)}
                        ELSE renamed
  /\ UNCHANGED << dest, prefix, format, path, copy_mode, force, todo,
                  succeeded, skipped, res, dir0, dest0, cands0, out >>

Next ==
  \/ \E p \in {DirPath} \cup {e.name : e \in dir}, cm \in BOOLEAN,
        fc \in BOOLEAN : app(p, cm, fc)
  \/ copy_all_begin
  \/ copy_all_step
  \/ copy_all_return
  \/ copy_single
  \/ rename_all_begin
  \/ rename_all_step
  \/ rename_all_return
  \/ rename_single

Spec == Init /\ [][Next]_vars


(***************************************************************************)
(* The functions applied to bounded inputs: is_formatted, find_index and   *)
(* formatted_filename on (path, prefix, format).                           *)
(***************************************************************************)
FnAlphabet == { "p", "7", ".", "-", "sup2" }

\* every name of 1..MaxNameLen characters of the alphabet
BoundedNames ==
  UNION {[1..n -> FnAlphabet] : n \in 1..MaxNameLen}

ScenarioName ==
  << "9", "9", "s", "c", "a", "n", "_", "0", "4", "2", ".", "j", "p", "g" >>

ExtraNames ==
  { ScenarioName,
    << "i", "m", "g", "0", "0", "3", ".", "p", "n", "g" >>,
    << "i", "m", "g", "7", ".", "p", "n", "g" >>,
    << "n", "o", "t", "e", "s", ".", "t", "x", "t" >>,
    << "p", " ", "7", ".", "j" >>,
    << "p", "7", "_", "7", ".", "j" >>,
    << "p", "7", "_", ".", "j" >>,
    << "p", "+", "7" >>,
    << "x", "7", "7", "7", ".", "j" >> }

\* a format whose placeholder is at offset k
HintAt(k) ==
  [i \in 1..(k + 2) |-> IF i <= k THEN "p" ELSE IF i = k + 1 THEN "{" ELSE "}"]

ScenarioHint ==
  << "s", "c", "a", "n", "_", "{", "}", ".", "j", "p", "g" >>

AlignedHint ==
  << "9", "9", "s", "c", "a", "n", "_", "{", "}", ".", "j", "p", "g" >>

FnFormats ==
  { << >>, << "p" >>, ScenarioHint, AlignedHint }
    \cup {HintAt(k) : k \in 0..MaxSkip}

FnPrefixes == { << "p" >>, << "p", "7" >>, << "p", "." >> }

InitFn ==
  /\ path \in BoundedNames \cup ExtraNames
  /\ prefix \in FnPrefixes
  /\ format \in FnFormats
  /\ pc = "input"
  /\ out = NoOut
  /\ dir = {}
  /\ dest = {}
  /\ copy_mode = FALSE
  /\ force = FALSE
  /\ todo = << >>
  /\ succeeded = 0
  /\ skipped = 0
  /\ res = NoRes
  /\ call = NoCall
  /\ renamed = {}
  /\ dir0 = {}
  /\ dest0 = {}
  /\ cands0 = {}

FnFrame ==
  UNCHANGED << dir, dest, prefix, format, path, copy_mode, force, todo,
               succeeded, skipped, res, call, renamed, dir0, dest0, cands0 >>

apply_is_formatted ==
  /\ pc = "input"
  /\ out' = [op |-> "is_formatted", formatted |-> is_formatted(path, prefix)]
  /\ pc' = "is_formatted"
  /\ FnFrame

apply_find_index ==
  /\ pc = "is_formatted"
  /\ IF find_index_exits(path, format)
     THEN /\ out' = [op |-> "error_exit", formatted |-> out.formatted]
          /\ pc' = "exited"
     ELSE /\ out' = [op |-> "find_index", formatted |-> out.formatted,
                     index |-> find_index(path, format)]
          /\ pc' = "find_index"
  /\ FnFrame

apply_formatted_filename ==
  /\ pc = "find_index"
  /\ out' = [op |-> "formatted_filename", formatted |-> out.formatted,
             index |-> out.index,
             name |-> formatted_filename(path, prefix, format)]
  /\ pc' = "formatted_filename"
  /\ FnFrame

NextFn ==
  \/ apply_is_formatted
  \/ apply_find_index
  \/ apply_formatted_filename

SpecFn == InitFn /\ [][NextFn]_vars


(***************************************************************************)
(* Properties of the functions, under SpecFn.                              *)
(***************************************************************************)
\* find_index has returned for a format that holds a placeholder
HintApplied ==
  out.op \in {"find_index", "formatted_filename"} /\ format # << >>

\* the filename with its first k characters removed, k the placeholder offset
Remainder == DropFirst(path, PlaceholderIndex(format))

\* C2, as stated: for a hint with its placeholder at offset k, find_index
\* returns what the no-hint find_index returns on the filename without its
\* first k characters.
C2_HintEqualsNoHintOnRemainder ==
  HintApplied => out.index = find_index(Remainder, << >>)

\* C2, amended: with a hint, find_index reads the digit run that starts
\* exactly at offset k and strips nothing: it equals the no-hint find_index
\* of the remainder when the remainder is empty or begins with a digit, and
\* is -1 when the remainder begins with a non-digit character (also when the
\* filename is shorter than k).
C2_HintReadsRunAtOffset ==
  HintApplied =>
    /\ (Remainder = << >> \/ IsDigit(Remainder[1]))
         => out.index = find_index(Remainder, << >>)
    /\ (Remainder # << >> /\ ~IsDigit(Remainder[1])) => out.index = -1
    /\ Len(path) < PlaceholderIndex(format) => out.index = -1

C2_Witness ==
  /\ HintApplied
  /\ PlaceholderIndex(format) > 0
  /\ Remainder # << >>
  /\ ~IsDigit(Remainder[1])
  /\ find_index(Remainder, << >>) >= 0
  /\ out.index = -1

\* formatted_filename has returned in the scenario of C3
ScenarioApplied ==
  /\ out.op = "formatted_filename"
  /\ path = ScenarioName
  /\ prefix = << "p" >>

ScenarioTarget == << "p", "4", "2", ".", "j", "p", "g" >>

\* C3, as stated: hint "scan_{}.jpg", filename "99scan_042.jpg" and prefix
\* "p" give index 42 and the name "p42.jpg".
C3_ScenarioYields42 ==
  (ScenarioApplied /\ format = ScenarioHint)
    => (out.index = 42 /\ out.name = ScenarioTarget)

\* C3, amended: with the hint "scan_{}.jpg" the search starts at offset 5,
\* on the character "n", so find_index returns -1 and formatted_filename the
\* empty name (the leading 99 is not taken as the index); the hint
\* "99scan_{}.jpg", whose placeholder is at offset 7, gives 42 and "p42.jpg".
C3_ScenarioYieldsSentinel ==
  /\ (ScenarioApplied /\ format = ScenarioHint)
       => (out.index = -1 /\ out.name = << >>)
  /\ (ScenarioApplied /\ format = AlignedHint)
       => (out.index = 42 /\ out.name = ScenarioTarget)

C3_Witness ==
  /\ ScenarioApplied
  /\ format = ScenarioHint
  /\ PlaceholderIndex(format) = 5
  /\ Remainder[1] = "n"
  /\ out.index = -1
  /\ out.name = << >>

\* the characters an argument of int() may hold
IntegerChars == DecDigits \cup Signs \cup Whitespace \cup {"_"}

C1_AbortLeavesDirectoriesUntouched ==
  pc = "exited" => (dir = dir0 /\ dest = dest0)

\* C4, as stated: rename_file called on a file that rename_file has renamed
\* to its target name returns false and changes nothing.
C4_RenameTwiceIsNoOp ==
  (call.op = "rename_file" /\ call.again)
    => (~call.ret /\ ~call.exit /\ dir = call.dir)

\* C5: copy_file never overwrites: every entry the destination held before
\* a call is still there after it, and a call whose target name exists in
\* the destination returns false, leaves the destination as it was and, in
\* the bulk run, is counted as uncopied.
C5_CopyNeverOverwrites ==
  call.op = "copy_file" =>
    /\ \A e \in call.dest : e \in dest
    /\ ~call.exit =>
         LET new == copy_target(call.name, prefix, format)
         IN  (new # << >> /\ Exists(call.dest, new))
               => /\ ~call.ret
                  /\ dest = call.dest
                  /\ pc = "copy_all" => skipped >= 1

\* the second of two candidates with the same target name has been skipped
C5_Witness ==
  /\ call.op = "copy_file"
  /\ pc = "copy_all"
  /\ ~call.exit
  /\ ~call.ret
  /\ succeeded >= 1
  /\ skipped >= 1
  /\ LET new == copy_target(call.name, prefix, format)
     IN  new # << >> /\ Exists(call.dest, new) /\ ~Exists(dest0, new)

\* C6: rename_file returns true, and renames, exactly when the file is not
\* formatted, an index is found and the target differs from the source and
\* does not exist; otherwise the directory is unchanged.  The directory
\* keeps its number of entries and their contents, under distinct names.
C6_RenameExactlyWhenFree ==
  /\ (call.op = "rename_file" /\ ~call.exit) =>
       LET new == formatted_filename(call.name, prefix, format)
           free == /\ ~is_formatted(call.name, prefix)
                   /\ find_index(call.name, format) # -1
                   /\ new # call.name
                   /\ ~Exists(call.dir, new)
       IN  /\ call.ret <=> free
           /\ call.ret =>
                \E e \in call.dir :
                  /\ e.name = call.name
                  /\ dir = (call.dir \ {e}) \cup {[e EXCEPT !.name = new]}
           /\ ~call.ret => dir = call.dir
  /\ Cardinality(dir) = Cardinality(dir0)
  /\ \A e \in dir0 : \E f \in dir : f.data = e.data /\ f.kind = e.kind
  /\ \A e, f \in dir : e.name = f.name => e = f

\* a bulk rename has returned after a candidate found its target name taken
\* by a candidate renamed earlier in the run
C6_Witness ==
  /\ res.op = "rename_all"
  /\ res.val[1] >= 1
  /\ call.op = "rename_file"
  /\ ~call.ret
  /\ ~is_formatted(call.name, prefix)
  /\ LET new == formatted_filename(call.name, prefix, format)
     IN  new # << >> /\ Exists(call.dir, new) /\ ~Exists(dir0, new)

\* C7: a bulk run that returns gives succeeded + skipped = total, and total
\* is the number of candidates to_process listed at the start; during the
\* run every candidate is either counted once or still to come.
C7_CountsAddUp ==
  /\ res.op \in {"rename_all", "copy_all"} =>
       /\ res.val[1] + res.val[2] = res.val[3]
       /\ res.val[3] = Cardinality(cands0)
       /\ cands0 = to_process(dir0)
  /\ pc \in {"rename_all", "copy_all"} =>
       /\ succeeded + skipped + Len(todo) = Cardinality(cands0)
       /\ \A i, j \in 1..Len(todo) : todo[i] = todo[j] => i = j
       /\ \A i \in 1..Len(todo) : Exists(dir, todo[i])

\* a bulk rename that renamed some candidates and skipped others has returned
C7_Witness ==
  /\ res.op = "rename_all"
  /\ res.val[1] >= 1
  /\ res.val[2] >= 1
  /\ dir # dir0

\* a sub-directory or an entry whose name starts with "."
NotCandidate(e) == e.kind = "dir" \/ (e.name # << >> /\ e.name[1] = ".")

\* the bulk rename of this invocation is running or has returned
InBulkRename == path = DirPath /\ (pc = "rename_all" \/ res.op = "rename_all")

\* prefix + the digit run of value n in at least two digits + extension
IsTargetName(new, old) ==
  LET digits == SubSeq(new, Len(prefix) + 1, Len(new) - Len(suffix(old)))
  IN  /\ StartsWith(new, prefix)
      /\ DropFirst(new, Len(new) - Len(suffix(old))) = suffix(old)
      /\ Len(digits) >= 2
      /\ \A i \in 1..Len(digits) : digits[i] \in DecDigits
      /\ Len(digits) > 2 => digits[1] # "0"
      /\ DigitsValue(digits, 0)
           = DigitsValue(TakeFirst(StripNonDigits(old),
                                   DigitRun(StripNonDigits(old))), 0)

ScenarioResult ==
  { File(<< "p", "h", "o", "t", "o", "0", "3", ".", "p", "n", "g" >>, 11),
    File(<< "p", "h", "o", "t", "o", "0", "7", ".", "p", "n", "g" >>, 12),
    File(<< "n", "o", "t", "e", "s", ".", "t", "x", "t" >>, 13),
    File(<< ".", "h", "i", "d", "d", "e", "n" >>, 14),
    Dir(<< "s", "u", "b" >>, 15) }

C10_CountsIndependentOfOrder ==
  res.op = "rename_all" =>
    \A o \in Orders(cands0) :
      rename_all_result(dir0, o, prefix, format, 0, 0) = res.val

=============================================================================
